---- MODULE Spec2Model ----
(***************************************************************************)
(* LLM client pool, retry loop and request execution of auto-doc-rs.       *)
(*                                                                         *)
(*   Spec      the pool API driven by one owner (get_client, mark_error,   *)
(*             clear_error) on a constructed pool, with a wall clock       *)
(*   SpecExec  tasks running execute_request concurrently on one shared    *)
(*             pool, each attempt being the client's retry loop            *)
(*   SpecRetry one get_structured_response_with_retry call                 *)
(*   SpecSimple one execute_simple call                                    *)
(*   SpecMembers the pool API with add_client and remove_client            *)
(*   SpecClassify from_error_string on error texts                         *)
(*   SpecConvert JsonSchemaConverter::convert on documents using a $ref    *)
(*   SpecFragments JsonSchemaConverter::convert on typed fragments and on  *)
(*             oneOf, anyOf and allOf fragments                            *)
(*   SpecClone a Distribute pool and a clone of it                         *)
(*   SpecParse try_parse on response texts                                 *)
(***************************************************************************)
EXTENDS Integers, Sequences, FiniteSets, TLC

VARIABLES
    clients,            \* LlmPool.clients: HashMap<u64, PoolMember>
    client_order,       \* LlmPool.client_order: Vec<u64>
    behavior,           \* LlmPool.behavior
    round_robin_index,  \* LlmPool.round_robin_index: Arc<AtomicUsize>
    iter_order,         \* iteration order of the HashMap (unspecified by std)
    now,                \* SystemTime::now(), in seconds
    panicked,           \* get_client panicked on an empty pool
    returned,           \* ids returned by the get_client calls made since the
                        \* pool or the clock last changed
    marked,             \* {c} when the last change was mark_error(c) on the
                        \* member get_client had just returned, else {}
    fresh               \* nothing but get_client has been called since new()

VARIABLES
    retry_config,       \* the RetryConfig in force
    backoff,            \* ExponentialBackoff: current_interval, and whether
                        \* next_backoff has given up
    attempt,            \* get_structured_response_with_retry: attempt
    elapsed,            \* ms since the backoff's start_time
    rpc,                \* "call", "sleep" or "done"
    delay,              \* the delay being slept
    timed_out,          \* next_backoff returned None
    outcome,            \* what the retry loop returned: None or Some(result)
    results,            \* result of each get_structured_response call so far
    delays              \* the delays slept so far

VARIABLES
    tasks               \* per task running execute_request: its position and
                        \* the locals of the call

VARIABLES
    error_string,       \* from_error_string: the error text handed in
    llm_error,          \* from_error_string: None, or Some(the class returned)
    json_schema,        \* JsonSchemaConverter::convert: the document handed in
    definitions,        \* JsonSchemaConverter.definitions
    converted           \* JsonSchemaConverter::convert: None, or Some(result)

VARIABLES
    cloned_pool,        \* None, or Some(the LlmPool that pool.clone() made)
    response_text,      \* try_parse: the text handed in
    json_candidates,    \* try_parse: json_candidates
    parse_result        \* try_parse: None, or Some(result)

poolVars == <<clients, client_order, behavior, round_robin_index, iter_order,
              now, panicked, returned, marked, fresh>>

retryVars == <<retry_config, backoff, attempt, elapsed, rpc, delay, timed_out,
               outcome, results, delays>>

pureVars == <<error_string, llm_error, json_schema, definitions, converted,
              cloned_pool, response_text, json_candidates, parse_result>>

vars == <<poolVars, retryVars, tasks, pureVars>>

----------------------------------------------------------------------------
(* Bounds of the model *)

MaxCalls == 4      \* consecutive get_client calls remembered in `returned`
MaxCounter == 4    \* cap of round_robin_index
MaxNow == 60       \* latest clock reading, in seconds
MaxRetries == 3    \* largest max_retries configured

(* Program constants *)

ERROR_COOLDOWN == 60

Ids == {1, 2, 3}                  \* client identities (LlmClient::id)
Prios == {1, 2}                   \* priorities in use
MaxPrio == CHOOSE p \in Prios : \A q \in Prios : q <= p
\* longest constructor vector: one entry per identity, repeats included
MaxOrder == Cardinality(Ids)
\* how far the clock moves between two operations: just short of the
\* cooldown, or exactly the cooldown
TickSteps == {ERROR_COOLDOWN - 1, ERROR_COOLDOWN}

None == {}
Some(x) == {x}
Unwrap(o) == CHOOSE x \in o : TRUE

Behaviors == {"Distribute", "Failover", "Combination"}

Range(s) == {s[i] : i \in 1..Len(s)}

Last(s) == s[Len(s)]

Perms(S) == {s \in [1..Cardinality(S) -> S] : Range(s) = S}

----------------------------------------------------------------------------
(* PoolMember and LlmPool::new *)

PoolMember_new(priority, id) ==
    [priority |-> priority, client |-> id, last_error |-> None]

RECURSIVE insert_all(_)
\* the HashMap built by LlmPool::new: a later member with the same id replaces
\* an earlier one
insert_all(members) ==
    IF members = <<>> THEN <<>>
    ELSE LET m == Last(members)
             rest == insert_all(SubSeq(members, 1, Len(members) - 1))
         IN  [id \in (DOMAIN rest) \cup {m.client} |->
                IF id = m.client THEN m ELSE rest[id]]

order_of(members) == [i \in 1..Len(members) |-> members[i].client]

----------------------------------------------------------------------------
(* Selection *)

\* now.duration_since(last_error).unwrap_or(Duration::ZERO)
duration_since(t, earlier) == IF t >= earlier THEN t - earlier ELSE 0

\* the member failed less than ERROR_COOLDOWN ago
in_cooldown(member) ==
    /\ member.last_error # None
    /\ duration_since(now, Unwrap(member.last_error)) < ERROR_COOLDOWN

\* variant: the counter is read but the incremented value is not stored
fetch_add_not_stored(v) == [old |-> v, new |-> v]

\* AtomicUsize::fetch_add(1): the value read and the value stored, in one step
fetch_add(v) == [old |-> v, new |-> v + 1]

RECURSIVE sort_by_key(_, _)
\* stable sort of ids by ascending priority, from priority p upwards
sort_by_key(seq, p) ==
    IF p > MaxPrio THEN <<>>
    ELSE SelectSeq(seq, LAMBDA id : clients[id].priority = p)
           \o sort_by_key(seq, p + 1)

\* variant: walks the map instead of the ordered identity sequence
get_distribute_client_by_map ==
    LET fa == fetch_add(round_robin_index)
        current_index == fa.old % Len(iter_order)
    IN  [client |-> iter_order[current_index + 1], index |-> fa.new]

get_distribute_client ==
    LET fa == fetch_add(round_robin_index)
        current_index == fa.old % Len(client_order)
    IN  [client |-> client_order[current_index + 1], index |-> fa.new]

\* variant: the priority sort is left out
get_failover_client_unsorted ==
    LET ok == SelectSeq(iter_order, LAMBDA id : ~in_cooldown(clients[id]))
    IN  [client |-> IF ok # <<>> THEN Head(ok) ELSE Head(iter_order),
         index |-> round_robin_index]

get_failover_client ==
    LET sorted_clients == sort_by_key(iter_order, 1)
        ok == SelectSeq(sorted_clients, LAMBDA id : ~in_cooldown(clients[id]))
    IN  [client |-> IF ok # <<>> THEN Head(ok) ELSE Head(sorted_clients),
         index |-> round_robin_index]

\* the members of priority p outside cooldown, in iteration order
available_clients(p) ==
    SelectSeq(iter_order,
              LAMBDA id : clients[id].priority = p /\ ~in_cooldown(clients[id]))

\* the priority groups that have an available member
open_groups == {p \in Prios : available_clients(p) # <<>>}

\* values().min_by_key(priority): the first minimum in iteration order
min_by_key ==
    LET lowest == CHOOSE p \in Prios :
                    /\ \E id \in DOMAIN clients : clients[id].priority = p
                    /\ \A id \in DOMAIN clients : clients[id].priority >= p
    IN  Head(SelectSeq(iter_order, LAMBDA id : clients[id].priority = lowest))

\* variant: the cooldown filter is left out
get_combination_client_unfiltered ==
    LET lowest == CHOOSE p \in Prios :
                    /\ \E id \in DOMAIN clients : clients[id].priority = p
                    /\ \A id \in DOMAIN clients : clients[id].priority >= p
        group == SelectSeq(iter_order, LAMBDA id : clients[id].priority = lowest)
        fa == fetch_add(round_robin_index)
        current_index == fa.old % Len(client_order)
    IN  [client |-> group[(current_index % Len(group)) + 1], index |-> fa.new]

get_combination_client ==
    IF open_groups # {}
    THEN LET p == CHOOSE q \in open_groups : \A r \in open_groups : q <= r
             avail == available_clients(p)
             fa == fetch_add(round_robin_index)
             current_index == fa.old % Len(client_order)
         IN  [client |-> avail[(current_index % Len(avail)) + 1],
              index |-> fa.new]
    ELSE [client |-> min_by_key, index |-> round_robin_index]

get_client ==
    CASE behavior = "Distribute" -> get_distribute_client
      [] behavior = "Failover" -> get_failover_client
      [] behavior = "Combination" -> get_combination_client

----------------------------------------------------------------------------
(* The pool API, one owner *)

\* Identities are opaque hashes: the constructor's vector is taken up to
\* renaming, its identities numbered in order of first appearance.
first_seen_in_order(members) ==
    \A i \in 1..Len(members) :
        \A k \in 1..(members[i].client - 1) :
            \E j \in 1..(i - 1) : members[j].client = k

\* neither the error classifier nor the schema converter is running
ClassifyIdle ==
    /\ error_string = <<>>
    /\ llm_error = {}

ConvertIdle ==
    /\ json_schema = <<>>
    /\ definitions = <<>>
    /\ converted = {}

CloneIdle == cloned_pool = {}

ParseIdle ==
    /\ response_text = <<>>
    /\ json_candidates = <<>>
    /\ parse_result = {}

PureIdle == ClassifyIdle /\ ConvertIdle /\ CloneIdle /\ ParseIdle

\* the retry loop is not part of this specification
RetryIdle ==
    /\ retry_config = <<>>
    /\ backoff = <<>>
    /\ attempt = 0
    /\ elapsed = 0
    /\ rpc = "idle"
    /\ delay = 0
    /\ timed_out = FALSE
    /\ outcome = None
    /\ results = <<>>
    /\ delays = <<>>

\* LlmPool::new(members, behavior), for vectors of up to longest members
PoolNew(longest) ==
    /\ \E members \in UNION {[1..n -> [priority : Prios, client : Ids,
                                       last_error : {None}]] : n \in 0..longest} :
          /\ first_seen_in_order(members)
          /\ clients = insert_all(members)
          /\ client_order = order_of(members)
    /\ behavior \in Behaviors
    /\ round_robin_index = 0
    /\ iter_order \in Perms(DOMAIN clients)
    /\ now = 0
    /\ panicked = FALSE
    /\ returned = <<>>
    /\ marked = {}
    /\ fresh = TRUE

Init ==
    /\ PoolNew(MaxOrder)
    /\ RetryIdle
    /\ tasks = <<>>
    /\ PureIdle

\* variant: no check for an empty pool, the call hands back a null client
GetClient_unchecked ==
    /\ ~panicked
    /\ Len(returned) < MaxCalls
    /\ round_robin_index < MaxCounter
    /\ returned' = Append(returned, IF clients = <<>> THEN 0 ELSE get_client.client)
    /\ round_robin_index' = IF clients = <<>> THEN round_robin_index
                            ELSE get_client.index
    /\ UNCHANGED <<clients, client_order, behavior, iter_order, now,
                   panicked, marked, fresh, retryVars, tasks, pureVars>>

GetClient ==
    /\ ~panicked
    /\ IF clients = <<>>
       THEN /\ panicked' = TRUE
            /\ UNCHANGED <<clients, client_order, behavior, round_robin_index,
                           iter_order, now, returned, marked, fresh,
                           retryVars, tasks, pureVars>>
       ELSE /\ Len(returned) < MaxCalls
            /\ round_robin_index < MaxCounter
            /\ returned' = Append(returned, get_client.client)
            /\ round_robin_index' = get_client.index
            /\ UNCHANGED <<clients, client_order, behavior, iter_order, now,
                           panicked, marked, fresh, retryVars, tasks, pureVars>>

\* variant: the timestamp is written to every member
mark_error_all(cs, c, t) == [id \in DOMAIN cs |-> [cs[id] EXCEPT !.last_error = Some(t)]]

\* mark_error on a clients map: the map it leaves
mark_error(cs, c, t) ==
    IF c \in DOMAIN cs THEN [cs EXCEPT ![c].last_error = Some(t)] ELSE cs

\* variant: the timestamp is written to a copy of the pool that is dropped
MarkError_on_copy(c) ==
    /\ ~panicked
    /\ marked' = IF returned # <<>> /\ Last(returned) = c THEN {c} ELSE {}
    /\ returned' = <<>>
    /\ fresh' = FALSE
    /\ UNCHANGED <<clients, client_order, behavior, round_robin_index,
                   iter_order, now, panicked, retryVars, tasks, pureVars>>

MarkError(c) ==
    /\ ~panicked
    /\ clients' = mark_error(clients, c, now)
    /\ marked' = IF returned # <<>> /\ Last(returned) = c THEN {c} ELSE {}
    /\ returned' = <<>>
    /\ fresh' = FALSE
    /\ UNCHANGED <<client_order, behavior, round_robin_index, iter_order, now,
                   panicked, retryVars, tasks, pureVars>>

ClearError(c) ==
    /\ ~panicked
    /\ clients' = IF c \in DOMAIN clients
                  THEN [clients EXCEPT ![c].last_error = None]
                  ELSE clients
    /\ marked' = {}
    /\ returned' = <<>>
    /\ fresh' = FALSE
    /\ UNCHANGED <<client_order, behavior, round_robin_index, iter_order, now,
                   panicked, retryVars, tasks, pureVars>>

AddClient(member) ==
    /\ ~panicked
    /\ Len(client_order) < MaxOrder
    /\ client_order' = Append(client_order, member.client)
    /\ clients' = [id \in (DOMAIN clients) \cup {member.client} |->
                     IF id = member.client THEN member ELSE clients[id]]
    /\ iter_order' \in Perms(DOMAIN clients')
    /\ marked' = {}
    /\ returned' = <<>>
    /\ fresh' = FALSE
    /\ UNCHANGED <<behavior, round_robin_index, now, panicked, retryVars, tasks, pureVars>>

\* variant: the identity is left in client_order
RemoveClient_map_only(c) ==
    /\ ~panicked
    /\ clients' = [id \in (DOMAIN clients) \ {c} |-> clients[id]]
    /\ iter_order' \in Perms(DOMAIN clients')
    /\ marked' = {}
    /\ returned' = <<>>
    /\ fresh' = FALSE
    /\ UNCHANGED <<client_order, behavior, round_robin_index, now, panicked,
                   retryVars, tasks, pureVars>>

RemoveClient(c) ==
    /\ ~panicked
    /\ client_order' = SelectSeq(client_order, LAMBDA id : id # c)
    /\ clients' = [id \in (DOMAIN clients) \ {c} |-> clients[id]]
    /\ iter_order' \in Perms(DOMAIN clients')
    /\ marked' = {}
    /\ returned' = <<>>
    /\ fresh' = FALSE
    /\ UNCHANGED <<behavior, round_robin_index, now, panicked, retryVars, tasks, pureVars>>

\* the wall clock moves forward, or is set back (SystemTime is not monotonic)
Tick ==
    /\ ~panicked
    /\ \E d \in TickSteps : now' \in {now + d, now - d}
    /\ now' \in 0..MaxNow
    /\ marked' = {}
    /\ returned' = <<>>
    /\ fresh' = FALSE
    /\ UNCHANGED <<clients, client_order, behavior, round_robin_index,
                   iter_order, panicked, retryVars, tasks, pureVars>>

----------------------------------------------------------------------------
(* Vocabulary of the claims about selection *)

Members == DOMAIN clients

\* the member's last failure is unset or at least ERROR_COOLDOWN seconds old
OutsideCooldown(id) ==
    \/ clients[id].last_error = None
    \/ \E t \in clients[id].last_error : now - t >= ERROR_COOLDOWN

Eligible == {id \in Members : OutsideCooldown(id)}

LowestIn(S, id) == id \in S /\ \A other \in S : clients[id].priority <= clients[other].priority

NoRepeats(s) == \A i, j \in 1..Len(s) : i # j => s[i] # s[j]

\* C1: under Distribute, on a freshly built pool of N >= 1 members of distinct
\* identity, the j-th get_client call returns the member at position
\* ((j-1) mod N) of the insertion order: the first N calls return the N members
\* in insertion order and call N+1 returns the first member again.
C1_DistributeRoundRobin ==
    (behavior = "Distribute" /\ fresh /\ NoRepeats(client_order)) =>
        \A j \in 1..Len(returned) :
            returned[j] = client_order[((j - 1) % Len(client_order)) + 1]

C1_Witness ==
    /\ behavior = "Distribute" /\ fresh /\ NoRepeats(client_order)
    /\ Len(client_order) = 3
    /\ Len(returned) = 4
    /\ <<returned[1], returned[2], returned[3]>> = client_order
    /\ returned[4] = client_order[1]

\* C2: under Failover get_client returns a member with the lowest priority
\* number among the members outside cooldown; when every member is within
\* cooldown it returns a member with the lowest priority number of all.
C2_FailoverLowestEligible ==
    (behavior = "Failover" /\ returned # <<>>) =>
        IF Eligible # {}
        THEN LowestIn(Eligible, Last(returned))
        ELSE LowestIn(Members, Last(returned))

C2_Witness ==
    /\ behavior = "Failover" /\ returned # <<>>
    /\ \E m \in Members :
          /\ ~OutsideCooldown(m)
          /\ clients[m].priority < clients[Last(returned)].priority
    /\ clients[Last(returned)].last_error # None
    /\ \E m \in Members \ {Last(returned)} : OutsideCooldown(m)

\* C4: under Failover with at least 2 members, after mark_error on the member
\* get_client just returned, the get_client calls that follow at once return
\* a different member, provided some other member is outside cooldown.
C4_MarkErrorSkipsMember ==
    (/\ behavior = "Failover"
     /\ Cardinality(Members) >= 2
     /\ marked # {}
     /\ \E other \in Members \ marked : OutsideCooldown(other))
    => \A j \in 1..Len(returned) : returned[j] \notin marked

C4_Witness ==
    /\ behavior = "Failover"
    /\ Cardinality(Members) >= 2
    /\ marked # {}
    /\ returned # <<>>
    /\ returned[1] \notin marked
    /\ \A m \in marked : LowestIn(Members, m)

\* C9: under Combination get_client returns a member outside cooldown of the
\* lowest-numbered priority group that has one; when every member is within
\* cooldown it returns a member with the lowest priority number of all.
C9_CombinationLowestOpenGroup ==
    (behavior = "Combination" /\ returned # <<>>) =>
        IF Eligible # {}
        THEN /\ OutsideCooldown(Last(returned))
             /\ \A e \in Eligible :
                   clients[Last(returned)].priority <= clients[e].priority
        ELSE \A m \in Members :
                   clients[Last(returned)].priority <= clients[m].priority

C9_Witness ==
    /\ behavior = "Combination" /\ returned # <<>>
    /\ \E m \in Members :
          /\ ~OutsideCooldown(m)
          /\ clients[m].priority < clients[Last(returned)].priority
    /\ \E m \in Members :
          /\ ~OutsideCooldown(m)
          /\ clients[m].priority = clients[Last(returned)].priority

\* the members outside cooldown in the group get_client selects from
SelectedGroup ==
    {id \in Eligible : \A e \in Eligible : clients[id].priority <= clients[e].priority}

\* C10: under Combination (members of distinct identity), with k members
\* outside cooldown in the selected group and no change between the calls, any
\* k consecutive get_client calls return k distinct members, whatever the
\* size of the pool.
C10_CombinationCyclesGroup ==
    (behavior = "Combination" /\ NoRepeats(client_order) /\ Eligible # {}) =>
        LET k == Cardinality(SelectedGroup)
            n == Len(returned)
        IN  n >= k => NoRepeats(SubSeq(returned, n - k + 1, n))

\* the candidates of a Failover selection, and of the Combination fallback:
\* the members of lowest priority number among those outside cooldown, or
\* among all members when none is outside cooldown
TiedCandidates ==
    IF Eligible # {}
    THEN {id \in Eligible : LowestIn(Eligible, id)}
    ELSE {id \in Members : LowestIn(Members, id)}

\* the member of S that comes first in the ordered identity sequence
EarliestInserted(S) ==
    client_order[CHOOSE i \in 1..Len(client_order) :
                    /\ client_order[i] \in S
                    /\ \A j \in 1..(i - 1) : client_order[j] \notin S]

\* C11: under Failover, and in the Combination fallback with every member
\* within cooldown, get_client returns, of the candidates sharing the lowest
\* priority number, the one inserted earliest (members of distinct identity).
C11_TiesByInsertionOrder ==
    (/\ behavior = "Failover" \/ (behavior = "Combination" /\ Eligible = {})
     /\ NoRepeats(client_order)
     /\ returned # <<>>)
    => Last(returned) = EarliestInserted(TiedCandidates)

\* what mark_error(c) and clear_error(c) leave alone: the membership, the
\* order, the counter, every priority and every other member's failure state
\* (all of the pool when no member has c's identity)
OnlyLastErrorOf(c) ==
    /\ client_order' = client_order
    /\ round_robin_index' = round_robin_index
    /\ behavior' = behavior
    /\ DOMAIN clients' = DOMAIN clients
    /\ \A id \in DOMAIN clients :
          /\ clients'[id].priority = clients[id].priority
          /\ clients'[id].client = clients[id].client
          /\ id # c => clients'[id].last_error = clients[id].last_error

\* C18: mark_error(c) sets, and clear_error(c) unsets, the last-failure
\* timestamp of the member of c's identity and changes nothing else of the
\* pool; with no such member the pool is left as it was.
C18_MarkClearOnlyThatMember ==
    [][\A c \in Ids :
          /\ MarkError(c) =>
                /\ OnlyLastErrorOf(c)
                /\ c \in DOMAIN clients => clients'[c].last_error = Some(now)
          /\ ClearError(c) =>
                /\ OnlyLastErrorOf(c)
                /\ c \in DOMAIN clients => clients'[c].last_error = None]_vars

C18_Witness ==
    \E c \in marked, m \in DOMAIN clients :
        /\ m # c
        /\ clients[c].last_error = Some(now)
        /\ clients[m].last_error # None
        /\ clients[m].last_error # Some(now)

----------------------------------------------------------------------------
Next ==
    \/ GetClient
    \/ \E c \in Ids : MarkError(c)
    \/ \E c \in Ids : ClearError(c)
    \/ Tick

Spec == Init /\ [][Next]_vars

----------------------------------------------------------------------------
(* The pool API with members added and removed *)

\* the longest vector handed to LlmPool::new here; add_client adds beyond it
InitialMembers == MaxOrder - 1

MembersInit ==
    /\ PoolNew(InitialMembers)
    /\ RetryIdle
    /\ tasks = <<>>
    /\ PureIdle

MembersNext ==
    \/ GetClient
    \/ \E c \in Ids : MarkError(c)
    \/ \E c \in Ids : ClearError(c)
    \/ \E priority \in Prios, id \in Ids : AddClient(PoolMember_new(priority, id))
    \/ \E c \in Ids : RemoveClient(c)

SpecMembers == MembersInit /\ [][MembersNext]_vars

\* C16: a get_client call on a pool of zero members panics and returns no
\* client, under every behaviour, whether the pool was built empty or was
\* emptied by remove_client.
C16_EmptyPoolPanics ==
    [][(clients = <<>> /\ GetClient) => (panicked' /\ returned' = returned)]_vars

C16_Witness ==
    /\ panicked
    /\ clients = <<>>
    /\ client_order = <<>>
    /\ round_robin_index > 0

\* C17: after construction and after any add_client and remove_client calls,
\* the identities in client_order are the keys of clients.
C17_OrderAndMapSameKeys == Range(client_order) = DOMAIN clients

C17_Witness ==
    /\ Len(client_order) = MaxOrder
    /\ ~NoRepeats(client_order)
    /\ Cardinality(DOMAIN clients) = 2
    /\ round_robin_index > 0

\* C29: after construction and after any add_client and remove_client calls,
\* client_order is as long as len(), the number of members in the map.
C29_OrderLengthIsLen == Len(client_order) = Cardinality(DOMAIN clients)

----------------------------------------------------------------------------
(* A Distribute pool and its clone (impl Clone for LlmPool) *)

CloneInit ==
    /\ PoolNew(MaxOrder)
    /\ behavior = "Distribute"
    /\ RetryIdle
    /\ tasks = <<>>
    /\ PureIdle

\* variant: the clone starts with a counter of its own at 0
Clone_counter_reset ==
    /\ ~panicked
    /\ cloned_pool = None
    /\ cloned_pool' = Some([clients |-> clients, client_order |-> client_order,
                            behavior |-> behavior, round_robin_index |-> 0,
                            served |-> Len(returned), returned |-> <<>>])
    /\ UNCHANGED <<poolVars, retryVars, tasks, error_string, llm_error,
                   json_schema, definitions, converted, response_text,
                   json_candidates, parse_result>>

\* pool.clone(): the fields copied, the counter a new one holding the value
\* loaded. served: the selections the pool had served; returned: the
\* identities the clone's get_client calls returned
Clone ==
    /\ ~panicked
    /\ cloned_pool = None
    /\ cloned_pool' = Some([clients |-> clients, client_order |-> client_order,
                            behavior |-> behavior,
                            round_robin_index |-> round_robin_index,
                            served |-> Len(returned), returned |-> <<>>])
    /\ UNCHANGED <<poolVars, retryVars, tasks, error_string, llm_error,
                   json_schema, definitions, converted, response_text,
                   json_candidates, parse_result>>

\* cloned_pool.get_client(), the clone being a Distribute pool
CloneGetClient ==
    /\ ~panicked
    /\ \E pool \in cloned_pool :
          IF pool.clients = <<>>
          THEN /\ panicked' = TRUE
               /\ UNCHANGED cloned_pool
          ELSE LET fa == fetch_add(pool.round_robin_index)
                   current_index == fa.old % Len(pool.client_order)
               IN  /\ Len(pool.returned) < MaxCalls
                   /\ pool.round_robin_index < MaxCounter
                   /\ cloned_pool' =
                         Some([pool EXCEPT
                                 !.round_robin_index = fa.new,
                                 !.returned = Append(@, pool.client_order[current_index + 1])])
                   /\ UNCHANGED panicked
    /\ UNCHANGED <<clients, client_order, behavior, round_robin_index,
                   iter_order, now, returned, marked, fresh, retryVars, tasks,
                   error_string, llm_error, json_schema, definitions, converted,
                   response_text, json_candidates, parse_result>>

CloneNext ==
    \/ GetClient
    \/ Clone
    \/ CloneGetClient

SpecClone == CloneInit /\ [][CloneNext]_vars

\* C30: a clone made of a Distribute pool after k selections returns, at its
\* next get_client, the member the pool returns at its next get_client.
C30_CloneKeepsRoundRobinState ==
    \A pool \in cloned_pool :
        (pool.returned # <<>> /\ Len(returned) > pool.served) =>
            pool.returned[1] = returned[pool.served + 1]

C30_Witness ==
    \E pool \in cloned_pool :
        /\ NoRepeats(client_order) /\ Len(client_order) = 2
        /\ pool.served = 1
        /\ pool.returned # <<>>
        /\ Len(returned) = 2
        /\ pool.returned[1] = returned[2]
        /\ returned[1] # returned[2]

----------------------------------------------------------------------------
(* LlmError and the error classifier (exceptions.rs) *)

\* Texts are sequences of characters.
UpperToLower ==
        ("A" :> "a") @@
        ("B" :> "b") @@
        ("C" :> "c") @@
        ("D" :> "d") @@
        ("E" :> "e") @@
        ("F" :> "f") @@
        ("G" :> "g") @@
        ("H" :> "h") @@
        ("I" :> "i") @@
        ("J" :> "j") @@
        ("K" :> "k") @@
        ("L" :> "l") @@
        ("M" :> "m") @@
        ("N" :> "n") @@
        ("O" :> "o") @@
        ("P" :> "p") @@
        ("Q" :> "q") @@
        ("R" :> "r") @@
        ("S" :> "s") @@
        ("T" :> "t") @@
        ("U" :> "u") @@
        ("V" :> "v") @@
        ("W" :> "w") @@
        ("X" :> "x") @@
        ("Y" :> "y") @@
        ("Z" :> "z")

\* String::to_lowercase on the characters in use
to_lowercase(text) ==
    [i \in 1..Len(text) |->
        IF text[i] \in DOMAIN UpperToLower THEN UpperToLower[text[i]] ELSE text[i]]

\* str::contains
contains(text, pat) ==
    \E i \in 0..(Len(text) - Len(pat)) :
        \A j \in 1..Len(pat) : text[i + j] = pat[j]

RateLimitMarkers == {
    <<"4", "2", "9">>,
    <<"r", "a", "t", "e", " ", "l", "i", "m", "i", "t">>,
    <<"t", "o", "o", " ", "m", "a", "n", "y", " ", "r", "e", "q", "u", "e", "s", "t", "s">>,
    <<"q", "u", "o", "t", "a", " ", "e", "x", "c", "e", "e", "d", "e", "d">>,
    <<"r", "e", "q", "u", "e", "s", "t", "s", " ", "p", "e", "r", " ", "m", "i", "n", "u", "t", "e">>,
    <<"r", "e", "q", "u", "e", "s", "t", "s", " ", "p", "e", "r", " ", "h", "o", "u", "r">>}

ServerErrorMarkers == {
    <<"5", "0", "0">>,
    <<"5", "0", "2">>,
    <<"5", "0", "3">>,
    <<"5", "0", "4">>,
    <<"i", "n", "t", "e", "r", "n", "a", "l", " ", "s", "e", "r", "v", "e", "r", " ", "e", "r", "r", "o", "r">>,
    <<"b", "a", "d", " ", "g", "a", "t", "e", "w", "a", "y">>,
    <<"s", "e", "r", "v", "i", "c", "e", " ", "u", "n", "a", "v", "a", "i", "l", "a", "b", "l", "e">>,
    <<"g", "a", "t", "e", "w", "a", "y", " ", "t", "i", "m", "e", "o", "u", "t">>,
    <<"h", "t", "t", "p", " ", "s", "t", "a", "t", "u", "s", " ", "s", "e", "r", "v", "e", "r", " ", "e", "r", "r", "o", "r">>}

\* variant: the text is matched as it is, without lower-casing
from_error_string_case_sensitive(error) ==
    IF \E m \in RateLimitMarkers : contains(error, m) THEN "RateLimit"
    ELSE IF \E m \in ServerErrorMarkers : contains(error, m)
         THEN "ServerError"
         ELSE "Chat"

from_error_string(error) ==
    LET error_lower == to_lowercase(error)
    IN  IF \E m \in RateLimitMarkers : contains(error_lower, m) THEN "RateLimit"
        ELSE IF \E m \in ServerErrorMarkers : contains(error_lower, m)
             THEN "ServerError"
             ELSE "Chat"

\* variant: chat errors are retried as well
is_retryable_with_chat(error) == error \in {"RateLimit", "ServerError", "Chat"}

is_retryable(error) == error \in {"RateLimit", "ServerError"}

\* error descriptions a backend may give
ErrorTexts == {
    <<"H", "T", "T", "P", " ", "4", "2", "9">>,
    <<"R", "a", "t", "e", " ", "L", "i", "m", "i", "t", " ", "h", "i", "t">>,
    <<"t", "o", "o", " ", "m", "a", "n", "y", " ", "r", "e", "q", "u", "e", "s", "t", "s">>,
    <<"Q", "u", "o", "t", "a", " ", "E", "x", "c", "e", "e", "d", "e", "d">>,
    <<"5", "0", "0">>,
    <<"e", "r", "r", "o", "r", " ", "5", "0", "3">>,
    <<"B", "a", "d", " ", "G", "a", "t", "e", "w", "a", "y">>,
    <<"4", "0", "1", " ", "U", "n", "a", "u", "t", "h", "o", "r", "i", "z", "e", "d">>,
    <<"i", "n", "v", "a", "l", "i", "d", " ", "r", "e", "q", "u", "e", "s", "t">>,
    <<>>,
    <<"t", "i", "m", "e", "o", "u", "t", " ", "5", "0", "4", " ", "a", "f", "t", "e", "r", " ", "4", "2", "9">>}

----------------------------------------------------------------------------
(* One get_structured_response call (client/mod.rs) *)

\* what can happen to one call: a stage fails, or the backend answers
Happenings ==
    {[stage |-> st, text |-> <<>>] :
        st \in {"schema_to_value", "convert", "simplified_to_value", "build",
                "empty_response", "parse_fails", "parsed"}}
    \cup {[stage |-> "chat", text |-> t] : t \in ErrorTexts}

\* the call reached llm.chat
sends(h) == h.stage \in {"chat", "empty_response", "parse_fails", "parsed"}

get_structured_response(h) ==
    CASE h.stage \in {"schema_to_value", "simplified_to_value"} -> "SchemaSerialization"
      [] h.stage = "convert" -> "SchemaSimplification"
      [] h.stage = "build" -> "Build"
      [] h.stage = "chat" -> from_error_string(h.text)
      [] h.stage \in {"empty_response", "parse_fails"} -> "ResponseParsing"
      [] h.stage = "parsed" -> "Ok"

----------------------------------------------------------------------------
(* ExponentialBackoff as get_structured_response_with_retry builds it.      *)
(* Durations are in milliseconds.                                           *)

\* ExponentialBackoff::default(): the interval the first delay is drawn from
DEFAULT_INITIAL_INTERVAL_MILLIS == 500

RetryConfigs ==
    [max_retries : 0..MaxRetries,
     initial_interval : {1000},
     max_interval : {1000, 60000},
     multiplier : {2},
     max_elapsed_time : {2000, 300000}]

\* how long one get_structured_response call may take
Latencies == {0, 1000}

\* struct update: the four configured fields, the rest from Default::default()
new_backoff(cfg) ==
    [current_interval |-> DEFAULT_INITIAL_INTERVAL_MILLIS,
     initial_interval |-> cfg.initial_interval,
     max_interval |-> cfg.max_interval,
     multiplier |-> cfg.multiplier,
     max_elapsed_time |-> cfg.max_elapsed_time]

\* randomization_factor 0.5 (Default::default()): the delay is drawn from
\* [0.5, 1.5] x current_interval; the ends and the middle stand for the draw
randomized_intervals(b) ==
    LET delta == b.current_interval \div 2
    IN  {b.current_interval - delta, b.current_interval, b.current_interval + delta}

increment_current_interval(b) ==
    IF b.current_interval >= b.max_interval \div b.multiplier
    THEN b.max_interval
    ELSE b.current_interval * b.multiplier

\* variant: the elapsed-time limit is not looked at
next_backoff_unbounded(b, elapsed_time, randomized_interval) ==
    [delay |-> Some(randomized_interval),
     backoff |-> [b EXCEPT !.current_interval = increment_current_interval(b)]]

\* Backoff::next_backoff: [delay: None or Some(ms), backoff: the state left]
next_backoff(b, elapsed_time, randomized_interval) ==
    IF elapsed_time > b.max_elapsed_time
    THEN [delay |-> None, backoff |-> b]
    ELSE LET after == [b EXCEPT !.current_interval = increment_current_interval(b)]
         IN  IF elapsed_time + randomized_interval <= b.max_elapsed_time
             THEN [delay |-> Some(randomized_interval), backoff |-> after]
             ELSE [delay |-> None, backoff |-> after]

----------------------------------------------------------------------------
(* get_structured_response_with_retry (client/mod.rs) *)

\* variant: the attempt count is compared with >=
returns_error_one_early(error, n) ==
    ~is_retryable(error) \/ n >= retry_config.max_retries

\* `!error.is_retryable() || attempt > retry_config.max_retries`
returns_error(error, n) ==
    ~is_retryable(error) \/ n > retry_config.max_retries

\* every result one get_structured_response call can have
Results == {get_structured_response(h) : h \in Happenings}

\* the pool is not part of this specification
PoolIdle ==
    /\ clients = <<>>
    /\ client_order = <<>>
    /\ behavior = "Distribute"
    /\ round_robin_index = 0
    /\ iter_order = <<>>
    /\ now = 0
    /\ panicked = FALSE
    /\ returned = <<>>
    /\ marked = {}
    /\ fresh = TRUE

RetryInit ==
    /\ retry_config \in RetryConfigs
    /\ backoff = new_backoff(retry_config)
    /\ attempt = 0
    /\ elapsed = 0
    /\ rpc = "call"
    /\ delay = 0
    /\ timed_out = FALSE
    /\ outcome = None
    /\ results = <<>>
    /\ delays = <<>>
    /\ PoolIdle
    /\ tasks = <<>>
    /\ PureIdle

\* one turn of the loop: the call, and the match on its result
Call(result, latency, randomized_interval) ==
    /\ rpc = "call"
    /\ LET t == elapsed + latency
       IN  /\ results' = Append(results, result)
           /\ elapsed' = t
           /\ IF result = "Ok"
              THEN /\ outcome' = Some(result)
                   /\ rpc' = "done"
                   /\ UNCHANGED <<attempt, backoff, delay, timed_out>>
              ELSE /\ attempt' = attempt + 1
                   /\ IF returns_error(result, attempt + 1)
                      THEN /\ outcome' = Some(result)
                           /\ rpc' = "done"
                           /\ UNCHANGED <<backoff, delay, timed_out>>
                      ELSE LET nb == next_backoff(backoff, t, randomized_interval)
                           IN  /\ backoff' = nb.backoff
                               /\ IF nb.delay # None
                                  THEN /\ delay' = Unwrap(nb.delay)
                                       /\ rpc' = "sleep"
                                       /\ UNCHANGED <<outcome, timed_out>>
                                  ELSE /\ outcome' = Some(result)
                                       /\ timed_out' = TRUE
                                       /\ rpc' = "done"
                                       /\ UNCHANGED delay
    /\ UNCHANGED <<retry_config, delays, poolVars, tasks, pureVars>>

\* sleep(delay).await
Sleep ==
    /\ rpc = "sleep"
    /\ elapsed' = elapsed + delay
    /\ delays' = Append(delays, delay)
    /\ rpc' = "call"
    /\ UNCHANGED <<retry_config, backoff, attempt, delay, timed_out, outcome,
                   results, poolVars, tasks, pureVars>>

RetryNext ==
    \/ \E result \in Results, latency \in Latencies :
          \E r \in randomized_intervals(backoff) : Call(result, latency, r)
    \/ Sleep

SpecRetry == RetryInit /\ [][RetryNext]_vars

Retryable == {"RateLimit", "ServerError"}

\* C5: with max_retries = R, when every call fails with RateLimit or
\* ServerError and the elapsed-time limit never cuts the loop short, the loop
\* ends after exactly R + 1 calls and returns the error of the last call.
C5_RetriesExactly ==
    (/\ rpc = "done"
     /\ ~timed_out
     /\ \A i \in 1..Len(results) : results[i] \in Retryable)
    => /\ Len(results) = retry_config.max_retries + 1
       /\ outcome = Some(Last(results))

C5_Witness ==
    /\ rpc = "done"
    /\ ~timed_out
    /\ retry_config.max_retries = 2
    /\ results = <<"RateLimit", "RateLimit", "RateLimit">>
    /\ outcome = Some("RateLimit")
    /\ Len(delays) = 2

\* C6: a call is made again only after a RateLimit or ServerError result; an
\* error of any other class ends the loop at once, is returned, and is followed
\* by no sleep.
C6_OnlyRetryableRetried ==
    /\ \A i \in 1..(Len(results) - 1) : results[i] \in Retryable
    /\ (results # <<>> /\ Last(results) \notin Retryable) =>
          /\ rpc = "done"
          /\ outcome = Some(Last(results))
          /\ Len(delays) = Len(results) - 1

C6_Witness ==
    /\ results = <<"Chat">>
    /\ rpc = "done"
    /\ outcome = Some("Chat")
    /\ delays = <<>>
    /\ retry_config.max_retries >= 1

\* C12: a sleep is entered only when the delay keeps the elapsed time within
\* max_elapsed_time; otherwise the loop has ended with the error of the last
\* call, without sleeping after it and without a further call, however few
\* retries were made.
C12_NoSleepBeyondMaxElapsed ==
    /\ rpc = "sleep" => elapsed + delay <= retry_config.max_elapsed_time
    /\ timed_out =>
          /\ rpc = "done"
          /\ Last(results) \in Retryable
          /\ outcome = Some(Last(results))
          /\ Len(delays) = Len(results) - 1

C12_Witness ==
    /\ timed_out
    /\ rpc = "done"
    /\ retry_config.max_retries = 3
    /\ Len(results) = 2
    /\ Len(delays) = 1
    /\ outcome = Some("ServerError")

RECURSIVE Power(_, _)
Power(base, e) == IF e = 0 THEN 1 ELSE base * Power(base, e - 1)

Min(a, b) == IF a <= b THEN a ELSE b

\* C13: the delay slept before retry k is
\* min(initial_interval * multiplier^(k-1), max_interval).
C13_DelaysExponentialFromInitial ==
    \A k \in 1..Len(delays) :
        delays[k] = Min(retry_config.initial_interval
                          * Power(retry_config.multiplier, k - 1),
                        retry_config.max_interval)

----------------------------------------------------------------------------
(* from_error_string on its own (exceptions.rs) *)

\* pieces of error descriptions: every marker the code looks for, some of
\* them in other cases, and pieces that are no marker
ErrorFragments ==
    RateLimitMarkers \cup ServerErrorMarkers \cup {
        <<"R", "a", "t", "e", " ", "L", "i", "m", "i", "t">>,
        <<"B", "A", "D", " ", "G", "A", "T", "E", "W", "A", "Y">>,
        <<"H", "T", "T", "P", " ", "s", "t", "a", "t", "u", "s", " ", "s", "e", "r", "v", "e", "r", " ", "e", "r", "r", "o", "r">>,
        <<"S", "e", "r", "v", "i", "c", "e", " ", "U", "n", "a", "v", "a", "i", "l", "a", "b", "l", "e">>,
        <<"5", "0", "1">>,
        <<"4", "0", "1">>,
        <<"5", "0", "5">>,
        <<"N", "o", "t", " ", "I", "m", "p", "l", "e", "m", "e", "n", "t", "e", "d">>,
        <<>>}

ClassifyTexts == {a \o <<" ">> \o b : a \in ErrorFragments, b \in ErrorFragments}

ClassifyInit ==
    /\ error_string \in ClassifyTexts
    /\ llm_error = None
    /\ ConvertIdle
    /\ CloneIdle
    /\ ParseIdle
    /\ PoolIdle
    /\ RetryIdle
    /\ tasks = <<>>

\* LlmError::from_error_string(error_string)
Classify ==
    /\ llm_error = None
    /\ llm_error' = Some(from_error_string(error_string))
    /\ UNCHANGED <<error_string, json_schema, definitions, converted,
                   cloned_pool, response_text, json_candidates, parse_result,
                   poolVars, retryVars, tasks>>

ClassifyNext == Classify

SpecClassify == ClassifyInit /\ [][ClassifyNext]_vars

\* the lower-cased text contains one of the markers
Mentions(text, markers) ==
    LET lower == to_lowercase(text)
    IN  \E m \in markers :
            \E i \in 1..(Len(lower) - Len(m) + 1) :
                SubSeq(lower, i, i + Len(m) - 1) = m

ListedRateLimitMarkers == {
    <<"4", "2", "9">>,
    <<"r", "a", "t", "e", " ", "l", "i", "m", "i", "t">>,
    <<"t", "o", "o", " ", "m", "a", "n", "y", " ", "r", "e", "q", "u", "e", "s", "t", "s">>,
    <<"q", "u", "o", "t", "a", " ", "e", "x", "c", "e", "e", "d", "e", "d">>,
    <<"r", "e", "q", "u", "e", "s", "t", "s", " ", "p", "e", "r", " ", "m", "i", "n", "u", "t", "e">>,
    <<"r", "e", "q", "u", "e", "s", "t", "s", " ", "p", "e", "r", " ", "h", "o", "u", "r">>}

ListedServerErrorMarkers == {
    <<"5", "0", "0">>,
    <<"5", "0", "2">>,
    <<"5", "0", "3">>,
    <<"5", "0", "4">>,
    <<"i", "n", "t", "e", "r", "n", "a", "l", " ", "s", "e", "r", "v", "e", "r", " ", "e", "r", "r", "o", "r">>,
    <<"b", "a", "d", " ", "g", "a", "t", "e", "w", "a", "y">>,
    <<"s", "e", "r", "v", "i", "c", "e", " ", "u", "n", "a", "v", "a", "i", "l", "a", "b", "l", "e">>,
    <<"g", "a", "t", "e", "w", "a", "y", " ", "t", "i", "m", "e", "o", "u", "t">>,
    <<"h", "t", "t", "p", " ", "s", "t", "a", "t", "u", "s", " ", "s", "e", "r", "v", "e", "r", " ", "e", "r", "r", "o", "r">>}

\* the class that goes with the marker sets rate and server, rate first
ClassBy(text, rate, server) ==
    IF Mentions(text, rate) THEN "RateLimit"
    ELSE IF Mentions(text, server) THEN "ServerError" ELSE "Chat"

\* C15 as claimed: the class is RateLimit iff the lower-cased text contains
\* '429', 'rate limit', 'too many requests', 'quota exceeded', 'requests per
\* minute' or 'requests per hour'; otherwise ServerError iff it contains '500',
\* '501', '502', '503', '504', 'internal server error', 'bad gateway', 'service
\* unavailable' or 'gateway timeout'; otherwise Chat.
C15_ClassifiedByClaimedMarkers ==
    llm_error # None =>
        llm_error = Some(ClassBy(error_string, ListedRateLimitMarkers,
                                 (ListedServerErrorMarkers
                                    \ {<<"h", "t", "t", "p", " ", "s", "t", "a", "t", "u", "s", " ", "s", "e", "r", "v", "e", "r", " ", "e", "r", "r", "o", "r">>})
                                 \cup {<<"5", "0", "1">>}))

\* C15 as amended: the server markers are '500', '502', '503', '504',
\* 'internal server error', 'bad gateway', 'service unavailable', 'gateway
\* timeout' and 'http status server error'; '501' is none.
C15_ClassifiedByMarkers ==
    llm_error # None =>
        llm_error = Some(ClassBy(error_string, ListedRateLimitMarkers,
                                 ListedServerErrorMarkers))

C15_Witness ==
    /\ error_string = <<"B", "A", "D", " ", "G", "A", "T", "E", "W", "A", "Y">>
                        \o <<" ">> \o <<"R", "a", "t", "e", " ", "L", "i", "m", "i", "t">>
    /\ llm_error = Some("RateLimit")

----------------------------------------------------------------------------
(* execute_simple: one get_simple_response call (client/mod.rs) *)

NoText == <<"N", "o", " ", "t", "e", "x", "t", " ", "i", "n", " ",
            "r", "e", "s", "p", "o", "n", "s", "e">>

\* what can happen to one get_simple_response call
SimpleHappenings ==
    {[stage |-> st, text |-> <<>>] :
        st \in {"build", "no_text", "empty_response", "text"}}
    \cup {[stage |-> "chat", text |-> t] : t \in ErrorTexts}

\* the result: its class, and the message a Chat error carries
get_simple_response(h) ==
    CASE h.stage = "build" -> [class |-> "Build", text |-> <<>>]
      [] h.stage = "chat" -> [class |-> "Chat", text |-> h.text]
      [] h.stage = "no_text" -> [class |-> "Chat", text |-> NoText]
      [] h.stage = "empty_response" -> [class |-> "ResponseParsing", text |-> <<>>]
      [] h.stage = "text" -> [class |-> "Ok", text |-> <<>>]

SimpleInit ==
    /\ retry_config \in RetryConfigs
    /\ backoff = <<>>
    /\ attempt = 0
    /\ elapsed = 0
    /\ rpc = "call"
    /\ delay = 0
    /\ timed_out = FALSE
    /\ outcome = None
    /\ results = <<>>
    /\ delays = <<>>
    /\ PoolIdle
    /\ tasks = <<>>
    /\ PureIdle

\* execute_simple: the call and its result handed back to the caller
ExecuteSimple(h) ==
    /\ rpc = "call"
    /\ results' = Append(results, get_simple_response(h))
    /\ outcome' = Some(get_simple_response(h))
    /\ rpc' = "done"
    /\ UNCHANGED <<retry_config, backoff, attempt, elapsed, delay, timed_out,
                   delays, poolVars, tasks, pureVars>>

SimpleNext == \E h \in SimpleHappenings : ExecuteSimple(h)

SpecSimple == SimpleInit /\ [][SimpleNext]_vars

\* C14: when the send of execute_simple fails with a text that marks a rate
\* limit or a server error, the error surfaced is of that class and the send
\* was retried max_retries times before it was surfaced.
C14_SimpleRetriesLikeStructured ==
    (/\ rpc = "done"
     /\ \A i \in 1..Len(results) :
           /\ results[i].class = "Chat"
           /\ from_error_string(results[i].text) \in Retryable)
    => /\ \E r \in outcome : from_error_string(r.text) = r.class
       /\ Len(results) = retry_config.max_retries + 1

----------------------------------------------------------------------------
(* execute_request (pool/mod.rs), the request function being               *)
(* execute_structured_with_retry on the selected client (pool/analyser.rs). *)
(* Tasks share the pool by reference; each action runs from one await to    *)
(* the next.                                                                *)

Tasks == {1, 2}

ExecMaxMembers == 2     \* largest constructor vector of the shared pool

\* the retry configuration of the clients
ExecRetryConfig ==
    [max_retries |-> 1, initial_interval |-> 1000, max_interval |-> 60000,
     multiplier |-> 2, max_elapsed_time |-> 300000]

\* the results of one call that reaches the backend, the schema and the
\* builder being sound
ExecResults == {get_structured_response(h) : h \in {x \in Happenings : sends(x)}}

TaskIdle ==
    [pc |-> "idle",          \* idle, select, call, sleep, done, panicked
     attempt |-> 0,          \* execute_request: attempt
     max_attempts |-> 0,     \* execute_request: max_attempts
     client |-> None,        \* execute_request: client
     retries |-> 0,          \* get_structured_response_with_retry: attempt
     last_error |-> None,    \* execute_request: last_error
     result |-> None,        \* what execute_request returned
     got |-> None,           \* counter value the latest get_client obtained
     failed |-> None,        \* member whose request failed in the last attempt
     other_at |-> None,      \* attempt in which the backend first returned an
                             \* error classified Other (LlmError::Chat)
     after_same |-> FALSE,   \* a send followed it within that attempt
     after_pool |-> FALSE,   \* a send followed it in a later attempt
     invoked |-> 0]          \* the calls of the request function

ExecInit ==
    /\ PoolNew(ExecMaxMembers)
    /\ retry_config = ExecRetryConfig
    /\ backoff = <<>>
    /\ attempt = 0
    /\ elapsed = 0
    /\ rpc = "idle"
    /\ delay = 0
    /\ timed_out = FALSE
    /\ outcome = None
    /\ results = <<>>
    /\ delays = <<>>
    /\ tasks = [t \in Tasks |-> TaskIdle]
    /\ PureIdle

\* the loop head: get_client, then the request function starts on the client
ExecSelect(t) ==
    /\ tasks[t].pc \in {"idle", "select"}
    /\ LET max_attempts == IF tasks[t].pc = "idle"
                           THEN IF behavior = "Distribute" THEN 1
                                ELSE Cardinality(DOMAIN clients)
                           ELSE tasks[t].max_attempts
       IN  IF clients = <<>>
           \* get_client panics; with no attempt made, so does last_error.unwrap()
           THEN /\ tasks' = [tasks EXCEPT ![t].pc = "panicked"]
                /\ UNCHANGED round_robin_index
           ELSE /\ round_robin_index < MaxCounter
                /\ round_robin_index' = get_client.index
                /\ tasks' = [tasks EXCEPT ![t].pc = "call",
                                          ![t].max_attempts = max_attempts,
                                          ![t].client = Some(get_client.client),
                                          ![t].got = Some(round_robin_index),
                                          ![t].invoked = @ + 1,
                                          ![t].retries = 0]
    /\ UNCHANGED <<clients, client_order, behavior, iter_order, now, panicked,
                   returned, marked, fresh, retryVars, pureVars>>

\* variant: the first failed attempt ends the request, whatever the behaviour
attempt_failed_no_failover(task, error) ==
    [task EXCEPT !.pc = "done", !.last_error = Some(error),
                 !.result = Some(error)]

\* the task after its request function returned Err(error)
attempt_failed(task, error) ==
    IF behavior = "Distribute"
    THEN [task EXCEPT !.pc = "done", !.result = Some(error)]
    ELSE LET \* Arc::try_unwrap(Arc::new(self.clone())): a copy of the pool,
             \* marked and dropped at the end of the block
             pool == mark_error(clients, Unwrap(task.client), now)
             next == task.attempt + 1
         IN  [task EXCEPT !.last_error = Some(error),
                          !.failed = task.client,
                          !.attempt = next,
                          !.pc = IF next < task.max_attempts THEN "select" ELSE "done",
                          !.result = IF next < task.max_attempts THEN None
                                     ELSE Some(error)]

\* one turn of the client's retry loop: the call, the match on its result and,
\* when the request function returns, the match in execute_request.
\* gave_up: next_backoff returned None (the elapsed time is not kept here)
ExecCall(t, result, gave_up) ==
    /\ tasks[t].pc = "call"
    /\ LET task == tasks[t]
           seen == IF task.other_at # None
                   THEN IF task.other_at = Some(task.attempt)
                        THEN [task EXCEPT !.after_same = TRUE]
                        ELSE [task EXCEPT !.after_pool = TRUE]
                   ELSE IF result = "Chat"
                        THEN [task EXCEPT !.other_at = Some(task.attempt)]
                        ELSE task
       IN  tasks' = [tasks EXCEPT ![t] =
              IF result = "Ok"
              THEN [seen EXCEPT !.pc = "done", !.result = Some("Ok")]
              ELSE IF returns_error(result, task.retries + 1) \/ gave_up
                   THEN attempt_failed([seen EXCEPT !.retries = task.retries + 1],
                                       result)
                   ELSE [seen EXCEPT !.retries = task.retries + 1, !.pc = "sleep"]]
    /\ UNCHANGED <<poolVars, retryVars, pureVars>>

\* sleep(delay).await is over
ExecWake(t) ==
    /\ tasks[t].pc = "sleep"
    /\ tasks' = [tasks EXCEPT ![t].pc = "call"]
    /\ UNCHANGED <<poolVars, retryVars, pureVars>>

ExecNext ==
    \/ \E t \in Tasks : ExecSelect(t)
    \/ \E t \in Tasks, result \in ExecResults, gave_up \in BOOLEAN :
          ExecCall(t, result, gave_up)
    \/ \E t \in Tasks : ExecWake(t)

SpecExec == ExecInit /\ [][ExecNext]_vars

\* C3: under Failover or Combination, once a request attempt made by
\* execute_request failed on member m, the failure is seen by the get_client
\* call of the next attempt: it does not return m while another member is
\* outside cooldown.
C3_FailureRecordedOnSharedPool ==
    \A t \in Tasks :
        (/\ behavior # "Distribute"
         /\ tasks[t].failed # None
         /\ tasks[t].pc \in {"call", "sleep"}
         /\ \E m \in Members \ tasks[t].failed : OutsideCooldown(m))
        => tasks[t].client # tasks[t].failed

\* C7 as claimed: once the backend returned an error classified Other, no
\* further backend send is made for that request, and that error is what the
\* caller receives.
C7_OtherErrorEndsRequest ==
    \A t \in Tasks :
        tasks[t].other_at # None =>
            /\ ~tasks[t].after_same
            /\ ~tasks[t].after_pool
            /\ tasks[t].pc = "done" => tasks[t].result = Some("Chat")

\* C7 as amended: once the backend returned an error classified Other, the
\* retry loop makes no further send in that attempt; under Distribute, and in
\* a pool of one member, no further send is made for the request and that
\* error is what the caller receives; only under Failover or Combination with
\* at least 2 members does the pool go on to its remaining attempts.
C7_OtherErrorEndsAttempt ==
    \A t \in Tasks :
        tasks[t].other_at # None =>
            /\ ~tasks[t].after_same
            /\ tasks[t].after_pool =>
                  behavior # "Distribute" /\ tasks[t].max_attempts >= 2
            /\ (behavior = "Distribute" \/ tasks[t].max_attempts = 1) =>
                  /\ tasks[t].pc = "done"
                  /\ tasks[t].result = Some("Chat")

C7_Witness ==
    \E t \in Tasks :
        /\ behavior = "Distribute"
        /\ Cardinality(Members) = 2
        /\ tasks[t].other_at # None
        /\ tasks[t].retries = 2
        /\ tasks[t].pc = "done"
        /\ tasks[t].result = Some("Chat")

Selected == {t \in Tasks : tasks[t].got # None}

\* C8: under Distribute, whatever the interleaving of the tasks, the K
\* get_client calls made so far obtained the counter values 0..K-1, each once,
\* and each returned the member at its value modulo N in insertion order: the
\* members returned are those K sequential calls return.
C8_DistinctCounterValues ==
    behavior = "Distribute" =>
        /\ \A t1, t2 \in Selected : t1 # t2 => tasks[t1].got # tasks[t2].got
        /\ {Unwrap(tasks[t].got) : t \in Selected} = 0..(Cardinality(Selected) - 1)
        /\ \A t \in Selected :
              tasks[t].client =
                Some(client_order[(Unwrap(tasks[t].got) % Len(client_order)) + 1])

C8_Witness ==
    /\ behavior = "Distribute"
    /\ NoRepeats(client_order) /\ Len(client_order) = 2
    /\ Selected = Tasks
    /\ tasks[2].got = Some(0) /\ tasks[1].got = Some(1)
    /\ tasks[1].pc = "call" /\ tasks[2].pc = "call"
    /\ tasks[1].client # tasks[2].client

\* C27: one execute_request call invokes the request function exactly once
\* under Distribute, its result returned as is; under Failover and Combination
\* at least once and at most len() times, a success ending the call and being
\* returned, and the error of the last attempt returned when every attempt
\* failed.
C27_AttemptsWithinLen ==
    \A t \in Tasks :
        LET task == tasks[t]
            len == Cardinality(DOMAIN clients)
        IN  IF behavior = "Distribute"
            THEN /\ task.invoked <= 1
                 /\ task.pc = "done" => task.invoked = 1
            ELSE /\ task.invoked <= len
                 /\ task.pc = "done" =>
                       /\ task.invoked >= 1
                       /\ \/ /\ task.result = Some("Ok")
                             /\ task.attempt = task.invoked - 1
                          \/ /\ task.result # Some("Ok")
                             /\ task.invoked = len
                             /\ task.attempt = len
                             /\ task.result = task.last_error

C27_Witness ==
    \E t \in Tasks :
        /\ behavior # "Distribute"
        /\ Cardinality(DOMAIN clients) = 2
        /\ tasks[t].pc = "done"
        /\ tasks[t].invoked = 2
        /\ tasks[t].result = tasks[t].last_error
        /\ tasks[t].result # Some("Ok")

----------------------------------------------------------------------------
(* JsonSchemaConverter (simplified_schema.rs).                              *)
(* A JSON object is a function from its keys; a JSON string that the code   *)
(* takes apart (a $ref, a definition name) is a sequence of characters.     *)

\* the deepest nesting of convert_schema calls the stack is taken to hold
MaxDepth == 8

\* serde_json::Value of a "$ref": a string, or something else
JsonString(chars) == [str |-> chars]
JsonNumber == [num |-> 1]

\* Value::as_str
as_str(v) == IF "str" \in DOMAIN v THEN Some(v.str) ELSE None

starts_with(text, prefix) ==
    /\ Len(text) >= Len(prefix)
    /\ SubSeq(text, 1, Len(prefix)) = prefix

RECURSIVE split(_, _)
\* str::split(sep): the pieces between the separators, empty ones included
split(text, sep) ==
    IF \E i \in 1..Len(text) : text[i] = sep
    THEN LET i == CHOOSE k \in 1..Len(text) :
                    /\ text[k] = sep
                    /\ \A j \in 1..(k - 1) : text[j] # sep
         IN  <<SubSeq(text, 1, i - 1)>> \o split(SubSeq(text, i + 1, Len(text)), sep)
    ELSE <<text>>

\* the keys extract_definitions and resolve_ref know
DefsKey == <<"$", "d", "e", "f", "s">>
DefinitionsKey == <<"d", "e", "f", "i", "n", "i", "t", "i", "o", "n", "s">>

\* extract_definitions: the entries of the document's own "$defs", then those
\* of its "definitions", a later entry replacing an earlier one of that name
extract_definitions(schema) ==
    LET defs == IF "$defs" \in DOMAIN schema THEN schema["$defs"] ELSE <<>>
        older == IF "definitions" \in DOMAIN schema THEN schema["definitions"]
                 ELSE <<>>
    IN  [name \in (DOMAIN defs) \cup (DOMAIN older) |->
            IF name \in DOMAIN older THEN older[name] ELSE defs[name]]

\* resolve_ref: Some(definition), or None for a RefResolutionError
resolve_ref(table, ref_path) ==
    LET parts == split(ref_path, "/")
    IN  IF /\ starts_with(ref_path, <<"#", "/">>)
           /\ Len(parts) >= 3
           /\ parts[2] \in {DefsKey, DefinitionsKey}
           /\ parts[3] \in DOMAIN table
        THEN Some(table[parts[3]])
        ELSE None

\* key.starts_with('$'), for the keys that occur
starts_with_dollar(key) == key \in {"$ref", "$defs", "$schema", "$id"}

\* clean_schema at the top of a fragment: the keys starting with '$' removed
clean_schema(schema) ==
    [key \in {k \in DOMAIN schema : ~starts_with_dollar(k)} |-> schema[key]]

Ok(node) == [ok |-> TRUE, node |-> node]
Err(error) == [ok |-> FALSE, error |-> error]

\* determine_type, for a "type" that is a string
determine_type(schema) ==
    IF "type" \in DOMAIN schema
    THEN CASE schema["type"] = "string" -> Ok("STRING")
           [] schema["type"] = "number" -> Ok("NUMBER")
           [] schema["type"] = "integer" -> Ok("INTEGER")
           [] schema["type"] = "boolean" -> Ok("BOOLEAN")
           [] schema["type"] = "array" -> Ok("ARRAY")
           [] schema["type"] = "object" -> Ok("OBJECT")
           [] OTHER -> Err("UnsupportedType")
    ELSE IF "properties" \in DOMAIN schema \/ "additionalProperties" \in DOMAIN schema
         THEN Ok("OBJECT")
    ELSE IF "items" \in DOMAIN schema THEN Ok("ARRAY")
    ELSE IF "enum" \in DOMAIN schema THEN Ok("STRING")
    ELSE IF DOMAIN schema = {} THEN Err("InvalidSchema")
    ELSE Err("MissingField")

\* the SimplifiedSchema convert_schema starts from (title, nullable, example,
\* default, any_of and property_ordering left out)
new_node(schema_type) ==
    [schema_type |-> schema_type, format |-> None, description |-> None,
     enum_values |-> None, max_items |-> None, min_items |-> None,
     properties |-> None, required |-> None, min_properties |-> None,
     max_properties |-> None, min_length |-> None, max_length |-> None,
     pattern |-> None, items |-> None, minimum |-> None, maximum |-> None]

\* u64::to_string, of a number below ten
to_string(n) == <<"0", "1", "2", "3", "4", "5", "6", "7", "8", "9">>[n + 1]

\* Map::get
get(schema, key) ==
    IF key \in DOMAIN schema THEN Some(schema[key]) ELSE None

\* variant: the numeric bounds are copied as well
convert_string_fields_with_bounds(schema, gemini_schema) ==
    [gemini_schema EXCEPT
        !.format = IF "enum" \in DOMAIN schema THEN Some("enum")
                   ELSE IF "format" \in DOMAIN schema
                           /\ schema["format"] \in {"date-time", "enum"}
                        THEN Some(schema["format"])
                        ELSE None,
        !.enum_values = {[i \in 1..Len(v) |-> v[i].str] : v \in get(schema, "enum")},
        !.min_length = {to_string(v) : v \in get(schema, "minLength")},
        !.max_length = {to_string(v) : v \in get(schema, "maxLength")},
        !.pattern = get(schema, "pattern"),
        !.minimum = get(schema, "minimum"),
        !.maximum = get(schema, "maximum")]

\* convert_string_fields, of a schema whose enum values are all strings
convert_string_fields(schema, gemini_schema) ==
    [gemini_schema EXCEPT
        !.format = IF "enum" \in DOMAIN schema THEN Some("enum")
                   ELSE IF "format" \in DOMAIN schema
                           /\ schema["format"] \in {"date-time", "enum"}
                        THEN Some(schema["format"])
                        ELSE None,
        !.enum_values = {[i \in 1..Len(v) |-> v[i].str] : v \in get(schema, "enum")},
        !.min_length = {to_string(v) : v \in get(schema, "minLength")},
        !.max_length = {to_string(v) : v \in get(schema, "maxLength")},
        !.pattern = get(schema, "pattern")]

convert_number_fields(schema, gemini_schema) ==
    [gemini_schema EXCEPT
        !.format =
            IF "format" \in DOMAIN schema
               /\ \/ /\ schema["format"] \in {"float", "double"}
                     /\ gemini_schema.schema_type = "NUMBER"
                  \/ /\ schema["format"] \in {"int32", "int64"}
                     /\ gemini_schema.schema_type = "INTEGER"
            THEN Some(schema["format"]) ELSE None,
        !.minimum = get(schema, "minimum"),
        !.maximum = get(schema, "maximum")]

RECURSIVE all_enum_values_first_only(_)
\* variant: the values of the first variant only
all_enum_values_first_only(one_of) ==
    IF one_of = <<>> THEN Some(<<>>)
    ELSE LET variant_obj == one_of[1]
         IN  IF /\ "type" \in DOMAIN variant_obj
                /\ variant_obj["type"] = "string"
                /\ "enum" \in DOMAIN variant_obj
                /\ \A i \in 1..Len(variant_obj["enum"]) :
                      as_str(variant_obj["enum"][i]) # None
             THEN LET rest == all_enum_values_first_only(Tail(one_of))
                      enum_vals == [i \in 1..Len(variant_obj["enum"]) |->
                                       variant_obj["enum"][i].str]
                  IN  IF rest = None THEN None ELSE Some(enum_vals)
             ELSE None

RECURSIVE all_enum_values(_)
\* the first loop of flatten_one_of: None when all_are_string_enums ends
\* false, else the enum values of the variants, one variant after the other
all_enum_values(one_of) ==
    IF one_of = <<>> THEN Some(<<>>)
    ELSE LET variant_obj == one_of[1]
         IN  IF /\ "type" \in DOMAIN variant_obj
                /\ variant_obj["type"] = "string"
                /\ "enum" \in DOMAIN variant_obj
                /\ \A i \in 1..Len(variant_obj["enum"]) :
                      as_str(variant_obj["enum"][i]) # None
             THEN LET rest == all_enum_values(Tail(one_of))
                      enum_vals == [i \in 1..Len(variant_obj["enum"]) |->
                                       variant_obj["enum"][i].str]
                  IN  IF rest = None THEN None
                      ELSE Some(enum_vals \o Unwrap(rest))
             ELSE None

RECURSIVE convert_schema(_, _, _)
\* convert_schema: Ok(node) or Err(error); a nesting deeper than MaxDepth
\* ends in a stack overflow
convert_schema(table, schema, depth) ==
    LET \* flatten_one_of, also flatten_any_of
        flatten_one_of(one_of) ==
            IF one_of = <<>> THEN Err("InvalidSchema")
            ELSE IF all_enum_values(one_of) # None
                    /\ all_enum_values(one_of) # Some(<<>>)
            THEN Ok([new_node("STRING") EXCEPT
                        !.format = Some("enum"),
                        !.enum_values = all_enum_values(one_of),
                        !.description = get(schema, "description")])
            ELSE convert_schema(table, one_of[1], depth + 1)
        flatten_all_of(all_of) ==
            IF all_of = <<>> THEN Err("InvalidSchema")
            ELSE LET plain == {i \in 1..Len(all_of) : "$ref" \notin DOMAIN all_of[i]}
                 IN  IF Len(all_of) = 1 \/ plain = {}
                     THEN convert_schema(table, all_of[1], depth + 1)
                     ELSE convert_schema(table,
                              all_of[CHOOSE i \in plain : \A j \in plain : i <= j],
                              depth + 1)
    IN
    IF depth > MaxDepth THEN Err("StackOverflow")
    ELSE IF "$ref" \in DOMAIN schema /\ as_str(schema["$ref"]) # None
    THEN LET resolved == resolve_ref(table, Unwrap(as_str(schema["$ref"])))
         IN  IF resolved = None THEN Err("RefResolutionError")
             ELSE convert_schema(table, Unwrap(resolved), depth + 1)
    ELSE IF "oneOf" \in DOMAIN schema THEN flatten_one_of(schema["oneOf"])
    ELSE IF "allOf" \in DOMAIN schema THEN flatten_all_of(schema["allOf"])
    ELSE IF "anyOf" \in DOMAIN schema THEN flatten_one_of(schema["anyOf"])
    ELSE LET schema_obj == clean_schema(schema)
             schema_type == determine_type(schema_obj)
             gemini_schema ==
                 [new_node(schema_type.node) EXCEPT
                     !.description = get(schema_obj, "description")]
         IN  IF ~schema_type.ok THEN schema_type
             ELSE IF schema_type.node = "STRING"
             THEN IF "enum" \in DOMAIN schema_obj
                     /\ \E i \in 1..Len(schema_obj["enum"]) :
                           as_str(schema_obj["enum"][i]) = None
                  THEN Err("InvalidSchema")
                  ELSE Ok(convert_string_fields(schema_obj, gemini_schema))
             ELSE IF schema_type.node \in {"NUMBER", "INTEGER"}
             THEN Ok(convert_number_fields(schema_obj, gemini_schema))
             ELSE IF schema_type.node = "ARRAY"
             THEN \* convert_array_fields
                  LET converted_items ==
                          IF "items" \in DOMAIN schema
                          THEN convert_schema(table, schema["items"], depth + 1)
                          ELSE Ok(<<>>)
                  IN  IF ~converted_items.ok THEN converted_items
                      ELSE Ok([gemini_schema EXCEPT
                                 !.items = IF "items" \in DOMAIN schema
                                           THEN Some(converted_items.node)
                                           ELSE None,
                                 !.min_items = {to_string(v) : v \in get(schema, "minItems")},
                                 !.max_items = {to_string(v) : v \in get(schema, "maxItems")}])
             ELSE IF schema_type.node = "OBJECT"
             THEN \* convert_object_fields
                  LET properties == IF "properties" \in DOMAIN schema
                                    THEN schema["properties"] ELSE <<>>
                      converted_properties ==
                          [key \in DOMAIN properties |->
                              convert_schema(table, properties[key], depth + 1)]
                      failing == {key \in DOMAIN properties :
                                     ~converted_properties[key].ok}
                  IN  IF failing # {}
                      THEN converted_properties[CHOOSE key \in failing : TRUE]
                      ELSE Ok([gemini_schema EXCEPT
                                 !.properties =
                                     IF "properties" \in DOMAIN schema
                                     THEN Some([key \in DOMAIN properties |->
                                                  converted_properties[key].node])
                                     ELSE None,
                                 !.required = get(schema, "required"),
                                 !.min_properties =
                                     {to_string(v) : v \in get(schema, "minProperties")},
                                 !.max_properties =
                                     {to_string(v) : v \in get(schema, "maxProperties")}])
             ELSE Ok(gemini_schema)

----------------------------------------------------------------------------
(* JsonSchemaConverter::convert on documents that use one reference *)

\* definition names; the last holds the separator of reference paths
DefinitionNames == {<<"a">>, <<"b">>, <<"a", "/", "b">>}

StringFragment == "type" :> "string"

\* the fragments definitions are made of: a string, an object with required
\* properties, a reference to b, a reference to a, and an object whose
\* property refers to a definition of its own "$defs" block
DefinitionFragments == {
    StringFragment,
    ("type" :> "object")
        @@ ("required" :> <<"veggieName", "veggieLike">>)
        @@ ("properties" :> (("veggieName" :> StringFragment)
                             @@ ("veggieLike" :> ("type" :> "boolean")))),
    "$ref" :> JsonString(<<"#", "/", "$", "d", "e", "f", "s", "/", "b">>),
    "$ref" :> JsonString(<<"#", "/", "$", "d", "e", "f", "s", "/", "a">>),
    ("type" :> "object")
        @@ ("$defs" :> (<<"n">> :> StringFragment))
        @@ ("properties" :> ("inner" :> ("$ref" :> JsonString(<<"#", "/", "$", "d", "e", "f", "s", "/", "n">>))))}

DefinitionTables ==
    UNION {[names -> DefinitionFragments] : names \in SUBSET DefinitionNames}

\* values of the "$ref" a document uses
RefValues ==
    {JsonNumber} \cup {JsonString(path) : path \in {
        <<"#", "/", "$", "d", "e", "f", "s", "/", "a">>,
        <<"#", "/", "d", "e", "f", "i", "n", "i", "t", "i", "o", "n", "s", "/", "a">>,
        <<"#", "/", "$", "d", "e", "f", "s", "/", "b">>,
        <<"#", "/", "$", "d", "e", "f", "s", "/", "a", "/", "b">>,
        <<"#", "/", "$", "d", "e", "f", "s", "/", "a", "/", "x">>,
        <<"#", "/", "$", "d", "e", "f", "s", "/", "n">>,
        <<"#", "/", "d", "e", "f", "s", "/", "a">>,
        <<"$", "d", "e", "f", "s", "/", "a">>,
        <<"#", "/", "$", "d", "e", "f", "s">>,
        <<"#", "/", "$", "d", "e", "f", "s", "/">>,
        <<"a">>}}

\* the reference at the root, as a property, or as the items of an array
RefUses(ref) == {
    "$ref" :> ref,
    ("type" :> "object") @@ ("properties" :> ("user" :> ("$ref" :> ref))),
    ("type" :> "array") @@ ("items" :> ("$ref" :> ref))}

Documents ==
    {use @@ (key :> table) :
        use \in UNION {RefUses(ref) : ref \in RefValues},
        key \in {"$defs", "definitions"},
        table \in DefinitionTables}

ConvertInit ==
    /\ json_schema \in Documents
    /\ definitions = <<>>
    /\ converted = None
    /\ ClassifyIdle
    /\ CloneIdle
    /\ ParseIdle
    /\ PoolIdle
    /\ RetryIdle
    /\ tasks = <<>>

\* JsonSchemaConverter::convert(json_schema)
Convert ==
    /\ converted = None
    /\ definitions' = extract_definitions(json_schema)
    /\ converted' = Some(convert_schema(definitions', json_schema, 1))
    /\ UNCHANGED <<json_schema, error_string, llm_error, cloned_pool,
                   response_text, json_candidates, parse_result, poolVars,
                   retryVars, tasks>>

ConvertNext == Convert

SpecConvert == ConvertInit /\ [][ConvertNext]_vars

\* the "$ref" the document uses
UsedRef(schema) ==
    IF "$ref" \in DOMAIN schema THEN schema["$ref"]
    ELSE IF "properties" \in DOMAIN schema
         THEN schema["properties"]["user"]["$ref"]
         ELSE schema["items"]["$ref"]

\* the reference to the definition name under "$defs" or "definitions"
RefTo(key, name) == JsonString(<<"#", "/">> \o key \o <<"/">> \o name)

\* C19: a conversion that reaches a "$ref" whose value is not exactly
\* "#/$defs/<name>" or "#/definitions/<name>", with <name> in the table of
\* definitions, fails and yields no node.
C19_OnlyExactRefsResolve ==
    (/\ converted # None
     /\ \A name \in DOMAIN definitions :
           /\ UsedRef(json_schema) # RefTo(DefsKey, name)
           /\ UsedRef(json_schema) # RefTo(DefinitionsKey, name))
    => \A result \in converted : ~result.ok

\* C20: for every name in the table of definitions, converting a "$ref" to
\* it gives what converting the definition's fragment gives.
C20_RefConvertsAsDefinition ==
    converted # None =>
        \A name \in DOMAIN definitions, key \in {DefsKey, DefinitionsKey} :
            convert_schema(definitions, "$ref" :> RefTo(key, name), 1)
                = convert_schema(definitions, definitions[name], 1)

\* C28: convert terminates on every document, returning a node or a
\* conversion error, also when definitions refer to themselves or to each
\* other in a cycle.
C28_ConvertTerminates ==
    \A result \in converted :
        result.ok \/ result.error # "StackOverflow"

----------------------------------------------------------------------------
(* JsonSchemaConverter::convert on fragments of every type that carry the   *)
(* keywords of other types, and on oneOf, anyOf and allOf fragments          *)

\* the names of the properties, in the order the input Map iterates them
PropertyNames == <<"x", "y">>

\* every keyword the type-specific conversions read, with a value
AllFields ==
    LET child(type) ==
            ("type" :> type) @@ ("pattern" :> "p") @@ ("minimum" :> 1)
            @@ ("maxItems" :> 2) @@ ("required" :> <<"x">>)
            @@ ("enum" :> <<JsonString(<<"a">>)>>)
    IN  ("properties" :> (("x" :> child("string")) @@ ("y" :> child("integer"))))
        @@ ("required" :> <<"x">>)
        @@ ("minProperties" :> 1) @@ ("maxProperties" :> 2)
        @@ ("items" :> child("object"))
        @@ ("minItems" :> 1) @@ ("maxItems" :> 2)
        @@ ("enum" :> <<JsonString(<<"a">>), JsonString(<<"b">>)>>)
        @@ ("pattern" :> "p") @@ ("minLength" :> 1) @@ ("maxLength" :> 2)
        @@ ("minimum" :> 1) @@ ("maximum" :> 2)
        @@ ("format" :> "date-time") @@ ("description" :> "d")

\* the variants of a oneOf, anyOf or allOf: string enums, one of them empty,
\* a string without enum, a number, and an enum holding a number
Variants == {
    ("type" :> "string") @@ ("enum" :> <<JsonString(<<"a">>)>>),
    ("type" :> "string") @@ ("enum" :> <<JsonString(<<"b">>)>>),
    ("type" :> "string") @@ ("enum" :> <<JsonString(<<"c">>), JsonString(<<"a">>)>>),
    ("type" :> "string") @@ ("enum" :> <<>>),
    "type" :> "string",
    "type" :> "number",
    ("type" :> "string") @@ ("enum" :> <<JsonNumber>>)}

MaxVariants == 3

FragmentDocuments ==
    LET KeySets == {keys \in SUBSET DOMAIN AllFields :
                       Cardinality(keys) <= 2 \/ keys = DOMAIN AllFields}
        Fields == {[key \in keys |-> AllFields[key]] : keys \in KeySets}
        Types == {"string", "number", "integer", "boolean", "array", "object",
                  "null"}
        Lists == UNION {[1..n -> Variants] : n \in 0..MaxVariants}
    IN  Fields
        \cup {("type" :> type) @@ fields : type \in Types, fields \in Fields}
        \cup {(key :> list) @@ parent :
                 key \in {"oneOf", "anyOf", "allOf"}, list \in Lists,
                 parent \in {<<>>, "description" :> "d"}}

FragmentInit ==
    /\ json_schema \in FragmentDocuments
    /\ definitions = <<>>
    /\ converted = None
    /\ ClassifyIdle
    /\ CloneIdle
    /\ ParseIdle
    /\ PoolIdle
    /\ RetryIdle
    /\ tasks = <<>>

\* JsonSchemaConverter::convert(json_schema), and the order in which the
\* HashMap of the returned node's properties yields them
ConvertFragment ==
    /\ converted = None
    /\ definitions' = extract_definitions(json_schema)
    /\ LET result == convert_schema(definitions', json_schema, 1)
           keys == IF result.ok /\ result.node.properties # None
                   THEN DOMAIN Unwrap(result.node.properties) ELSE {}
       IN  \E iteration \in Perms(keys) :
              converted' = Some(result @@ [iteration |-> iteration])
    /\ UNCHANGED <<json_schema, error_string, llm_error, cloned_pool,
                   response_text, json_candidates, parse_result, poolVars,
                   retryVars, tasks>>

FragmentNext == ConvertFragment

SpecFragments == FragmentInit /\ [][FragmentNext]_vars

\* C21: a oneOf or anyOf whose every branch is a plain string enum converts
\* to one String node whose enum values are the branches' lists one after the
\* other, in branch order and with duplicates kept, and whose format is "enum".
C21_StringEnumsMerged ==
    \A result \in converted :
        \A key \in {"oneOf", "anyOf"} \cap DOMAIN json_schema :
            LET branches == json_schema[key]
                PlainStringEnum(branch) ==
                    /\ DOMAIN branch = {"type", "enum"}
                    /\ branch["type"] = "string"
                    /\ \A i \in 1..Len(branch["enum"]) :
                          as_str(branch["enum"][i]) # None
                RECURSIVE Concatenation(_)
                Concatenation(n) ==
                    IF n = 0 THEN <<>>
                    ELSE Concatenation(n - 1)
                           \o [i \in 1..Len(branches[n]["enum"]) |->
                                  branches[n]["enum"][i].str]
            IN  (/\ branches # <<>>
                 /\ \A n \in 1..Len(branches) : PlainStringEnum(branches[n]))
                => /\ result.ok
                   /\ result.node.schema_type = "STRING"
                   /\ result.node.enum_values = Some(Concatenation(Len(branches)))
                   /\ result.node.format = Some("enum")

C21_Witness ==
    \E result \in converted :
        /\ "anyOf" \in DOMAIN json_schema
        /\ Len(json_schema["anyOf"]) = 3
        /\ result.ok
        /\ result.node.enum_values = Some(<<<<"a">>, <<"b">>, <<"c">>, <<"a">>>>)
        /\ result.node.format = Some("enum")

\* C22: every node of a tree a successful conversion returns has only the
\* fields of its type set: properties, required, minProperties, maxProperties
\* on Object nodes; items, minItems, maxItems on Array nodes; enumValues,
\* pattern, minLength, maxLength on String nodes; minimum, maximum on Number
\* and Integer nodes.
C22_FieldsMatchType ==
    \A result \in converted :
        result.ok =>
            LET Children(nodes) ==
                    UNION {node.items \cup
                             (IF node.properties = None THEN {}
                              ELSE {Unwrap(node.properties)[name] :
                                      name \in DOMAIN Unwrap(node.properties)}) :
                           node \in nodes}
                Tree == {result.node} \cup Children({result.node})
                          \cup Children(Children({result.node}))
                Unset(node, fields) == \A field \in fields : node[field] = None
            IN  \A node \in Tree :
                   /\ node.schema_type # "OBJECT" =>
                         Unset(node, {"properties", "required", "min_properties",
                                      "max_properties"})
                   /\ node.schema_type # "ARRAY" =>
                         Unset(node, {"items", "min_items", "max_items"})
                   /\ node.schema_type # "STRING" =>
                         Unset(node, {"enum_values", "pattern", "min_length",
                                      "max_length"})
                   /\ node.schema_type \notin {"NUMBER", "INTEGER"} =>
                         Unset(node, {"minimum", "maximum"})

C22_Witness ==
    \E result \in converted :
        /\ DOMAIN json_schema = {"type"} \cup DOMAIN AllFields
        /\ json_schema["type"] = "object"
        /\ result.ok
        /\ result.node.schema_type = "OBJECT"
        /\ result.node.min_properties # None
        /\ \E name \in DOMAIN Unwrap(result.node.properties) :
              LET child == Unwrap(result.node.properties)[name]
              IN
              /\ child.schema_type = "STRING"
              /\ child.pattern # None
              /\ child.minimum = None

\* C23: the conversion of an Object fragment yields the properties in the
\* order in which they appear in the input fragment.
C23_PropertiesInInputOrder ==
    \A result \in converted :
        (result.ok /\ result.node.properties # None) =>
            result.iteration =
                SelectSeq(PropertyNames,
                          LAMBDA name : name \in DOMAIN Unwrap(result.node.properties))

----------------------------------------------------------------------------
(* JSON extraction from a response (extract_json.rs) and try_parse *)

\* the characters of the response texts and their bytes, the order String
\* comparison goes by. The backquote of the code fences is written ' here
Bytes ==
    ("\n" :> 10) @@ (" " :> 32) @@ ("\"" :> 34) @@ ("," :> 44) @@ ("1" :> 49)
    @@ (":" :> 58) @@ ("'" :> 96) @@ ("a" :> 97) @@ ("b" :> 98)
    @@ ("j" :> 106) @@ ("n" :> 110) @@ ("o" :> 111) @@ ("s" :> 115)
    @@ ("{" :> 123) @@ ("}" :> 125)

\* the whitespace of the regexes, of trim and of serde_json
Whitespace == {" ", "\n"}

Fence == <<"'", "'", "'">>

\* the pattern, a literal, matches the text from position i
literal_at(text, i, pat) ==
    /\ i >= 1
    /\ i + Len(pat) - 1 <= Len(text)
    /\ SubSeq(text, i, i + Len(pat) - 1) = pat

\* the position after the run of whitespace that starts at position i
skip_whitespace(text, i) ==
    CHOOSE k \in i..(Len(text) + 1) :
        /\ k = Len(text) + 1 \/ text[k] \notin Whitespace
        /\ \A j \in i..(k - 1) : text[j] \in Whitespace

\* str::trim
trim(text) ==
    IF \A i \in 1..Len(text) : text[i] \in Whitespace THEN <<>>
    ELSE LET NonBlank == {i \in 1..Len(text) : text[i] \notin Whitespace}
             first == CHOOSE i \in NonBlank : \A j \in NonBlank : i <= j
             last == CHOOSE i \in NonBlank : \A j \in NonBlank : j <= i
         IN  SubSeq(text, first, last)

\* the regex JSON_CODE_BLOCK matched at position i: None, or the match with
\* its capture group 1. A fence, an optional json, whitespace, then the group:
\* an opening brace, lazily any characters but newline, a closing brace; then
\* whitespace and a fence
JSON_CODE_BLOCK(text, i) ==
    IF ~literal_at(text, i, Fence) THEN None
    ELSE LET after_fence == i + Len(Fence)
             after_json == IF literal_at(text, after_fence, <<"j", "s", "o", "n">>)
                           THEN after_fence + 4 ELSE after_fence
             open == skip_whitespace(text, after_json)
             closes == {q \in (open + 1)..Len(text) :
                          /\ text[q] = "}"
                          /\ \A j \in (open + 1)..(q - 1) : text[j] # "\n"
                          /\ literal_at(text, skip_whitespace(text, q + 1), Fence)}
         IN  IF open > Len(text) \/ text[open] # "{" \/ closes = {} THEN None
             ELSE LET close == CHOOSE q \in closes : \A r \in closes : q <= r
                  IN  Some([start |-> i,
                            end |-> skip_whitespace(text, close + 1) + Len(Fence),
                            json |-> SubSeq(text, open, close)])

\* the regex JSON_OBJECT matched at position i: an opening brace, greedily
\* any characters but newline, a closing brace
JSON_OBJECT(text, i) ==
    LET closes == {q \in (i + 1)..Len(text) :
                      /\ text[q] = "}"
                      /\ \A j \in (i + 1)..(q - 1) : text[j] # "\n"}
    IN  IF i > Len(text) \/ text[i] # "{" \/ closes = {} THEN None
        ELSE LET close == CHOOSE q \in closes : \A r \in closes : r <= q
             IN  Some([start |-> i, end |-> close + 1,
                       json |-> SubSeq(text, i, close)])

\* Regex::captures / Regex::find from position from: the leftmost match
captures(text, from) ==
    LET starts == {i \in from..Len(text) : JSON_CODE_BLOCK(text, i) # None}
    IN  IF starts = {} THEN None
        ELSE JSON_CODE_BLOCK(text, CHOOSE i \in starts : \A j \in starts : i <= j)

find(text, from) ==
    LET starts == {i \in from..Len(text) : JSON_OBJECT(text, i) # None}
    IN  IF starts = {} THEN None
        ELSE JSON_OBJECT(text, CHOOSE i \in starts : \A j \in starts : i <= j)

RECURSIVE captures_iter(_, _)
\* the captures of the successive matches, none overlapping
captures_iter(text, from) ==
    IF captures(text, from) = None THEN <<>>
    ELSE LET m == Unwrap(captures(text, from))
         IN  <<m.json>> \o captures_iter(text, m.end)

RECURSIVE find_iter(_, _)
find_iter(text, from) ==
    IF find(text, from) = None THEN <<>>
    ELSE LET m == Unwrap(find(text, from))
         IN  <<m.json>> \o find_iter(text, m.end)

extract_json_from_response(text) ==
    IF captures(text, 1) # None THEN Some(Unwrap(captures(text, 1)).json)
    ELSE IF find(text, 1) # None THEN Some(Unwrap(find(text, 1)).json)
    ELSE None

\* Strategy 3 of extract_json_aggressively: from the first '{' to the '}' at
\* which the count of open braces is back at 0; None when it never is
balanced_braces(text) ==
    LET Opens == {i \in 1..Len(text) : text[i] = "{"}
    IN  IF Opens = {} THEN None
        ELSE LET start == CHOOSE i \in Opens : \A j \in Opens : i <= j
                 brace_count(q) ==
                     Cardinality({j \in start..q : text[j] = "{"})
                       - Cardinality({j \in start..q : text[j] = "}"})
                 Ends == {q \in start..Len(text) : brace_count(q) = 0}
             IN  IF Ends = {} THEN None
                 ELSE LET end_pos == CHOOSE q \in Ends : \A r \in Ends : q <= r
                      IN  Some(SubSeq(text, start, end_pos))

\* String's Ord: by bytes, a proper prefix first
string_lt(a, b) ==
    \E k \in 1..Len(b) :
        /\ k - 1 <= Len(a)
        /\ SubSeq(a, 1, k - 1) = SubSeq(b, 1, k - 1)
        /\ k > Len(a) \/ Bytes[a[k]] < Bytes[b[k]]

RECURSIVE sort_dedup(_)
\* candidates.sort(); candidates.dedup(), of the strings in the set
sort_dedup(strings) ==
    IF strings = {} THEN <<>>
    ELSE LET least == CHOOSE x \in strings :
                          \A y \in strings \ {x} : string_lt(x, y)
         IN  <<least>> \o sort_dedup(strings \ {least})

extract_json_aggressively(text) ==
    sort_dedup(Range(captures_iter(text, 1)) \cup Range(find_iter(text, 1))
               \cup balanced_braces(text))

RECURSIVE parse_value(_, _)
RECURSIVE parse_members(_, _, _)

\* a JSON string from the quote at position p: the position after its closing
\* quote, 0 when there is none (no escapes in these texts)
parse_string(s, p) ==
    LET closes == {q \in (p + 1)..Len(s) :
                      /\ s[q] = "\""
                      /\ \A j \in (p + 1)..(q - 1) : s[j] \notin {"\"", "\n"}}
    IN  IF closes = {} THEN 0 ELSE (CHOOSE q \in closes : TRUE) + 1

\* serde_json reading one value from position i: the position after the
\* value, 0 for a syntax error
parse_value(s, i) ==
    LET p == skip_whitespace(s, i)
    IN  IF p > Len(s) THEN 0
        ELSE IF s[p] = "1" THEN p + 1
        ELSE IF s[p] = "\"" THEN parse_string(s, p)
        ELSE IF s[p] = "{" THEN parse_members(s, skip_whitespace(s, p + 1), TRUE)
        ELSE 0

\* the members of an object from position p, up to and including its '}'
parse_members(s, p, may_close) ==
    IF p > Len(s) THEN 0
    ELSE IF may_close /\ s[p] = "}" THEN p + 1
    ELSE IF s[p] # "\"" \/ parse_string(s, p) = 0 THEN 0
    ELSE LET colon == skip_whitespace(s, parse_string(s, p))
         IN  IF colon > Len(s) \/ s[colon] # ":" \/ parse_value(s, colon + 1) = 0
             THEN 0
             ELSE LET next == skip_whitespace(s, parse_value(s, colon + 1))
                  IN  IF next > Len(s) THEN 0
                      ELSE IF s[next] = "," THEN
                          parse_members(s, skip_whitespace(s, next + 1), FALSE)
                      ELSE IF s[next] = "}" THEN next + 1
                      ELSE 0

\* serde_json::from_str::<T>, T read from any JSON object: Ok(the document,
\* its insignificant whitespace dropped) or Err
from_str(json_text) ==
    LET start == skip_whitespace(json_text, 1)
        end == parse_value(json_text, 1)
    IN  IF /\ start <= Len(json_text)
           /\ json_text[start] = "{"
           /\ end # 0
           /\ skip_whitespace(json_text, end) > Len(json_text)
        THEN Ok(SelectSeq(json_text, LAMBDA ch : ch \notin Whitespace))
        ELSE Err("serde_json::Error")

RECURSIVE try_strategies(_, _, _, _)
\* the loop of try_parse from candidate i on. tried: the strategies whose
\* candidate was handed to from_str
try_strategies(candidates, i, all_errors, tried) ==
    IF i > Len(candidates)
    THEN [result |-> Err([strategies |-> Len(candidates), all_errors |-> all_errors]),
          tried |-> tried]
    ELSE IF candidates[i] # None
    THEN LET parsed == from_str(Unwrap(candidates[i]))
         IN  IF parsed.ok
             THEN [result |-> parsed, tried |-> Append(tried, i)]
             ELSE try_strategies(candidates, i + 1,
                      Append(all_errors, [strategy |-> i, error |-> parsed.error]),
                      Append(tried, i))
    ELSE try_strategies(candidates, i + 1,
             Append(all_errors, [strategy |-> i, error |-> "No JSON candidate found"]),
             tried)

\* what the response texts are made of: prose, a line end, an opening fence
\* with its json tag, a fence, a closing fence on a line of its own, an
\* object, a nested object, a malformed object, an object over two lines, and
\* single braces
ResponseFragments == {
    <<"a">>,
    <<"\n">>,
    Fence \o <<"j", "s", "o", "n", "\n">>,
    Fence,
    <<"\n">> \o Fence,
    <<"{", "\"", "a", "\"", ":", "1", "}">>,
    <<"{", "\"", "b", "\"", ":", "{", "\"", "a", "\"", ":", "1", "}", "}">>,
    <<"{", "\"", "a", "\"", "}">>,
    <<"{", "\n", "\"", "a", "\"", ":", "1", "}">>,
    <<"{">>,
    <<"}">>}

MaxFragments == 4

RECURSIVE ResponseTexts(_)
\* the texts of at most n fragments
ResponseTexts(n) ==
    IF n = 0 THEN {<<>>}
    ELSE LET shorter == ResponseTexts(n - 1)
         IN  shorter \cup {t \o f : t \in shorter, f \in ResponseFragments}

ParseInit ==
    /\ response_text \in ResponseTexts(MaxFragments)
    /\ json_candidates = <<>>
    /\ parse_result = None
    /\ ClassifyIdle
    /\ ConvertIdle
    /\ CloneIdle
    /\ PoolIdle
    /\ RetryIdle
    /\ tasks = <<>>

\* try_parse(response_text)
TryParse ==
    /\ parse_result = None
    /\ LET aggressive == extract_json_aggressively(response_text)
       IN  json_candidates' =
              <<Some(trim(response_text)),
                extract_json_from_response(response_text),
                IF aggressive = <<>> THEN None ELSE Some(aggressive[1])>>
    /\ parse_result' = Some(try_strategies(json_candidates', 1, <<>>, <<>>))
    /\ UNCHANGED <<response_text, error_string, llm_error, json_schema,
                   definitions, converted, cloned_pool, poolVars, retryVars,
                   tasks>>

ParseNext == TryParse

SpecParse == ParseInit /\ [][ParseNext]_vars

\* C24: try_parse tries the trimmed text, the code-block/regex candidate and
\* the brace-scan candidate in this order; it returns the value of the first
\* one that parses and tries none after it; it returns an error only when all
\* three fail, the error holding one message per strategy in strategy order,
\* a 'no candidate' message for a strategy without candidate.
C24_FirstParsingCandidateWins ==
    \A r \in parse_result :
        LET StrategyCandidates ==
                <<Some(trim(response_text)),
                  extract_json_from_response(response_text),
                  balanced_braces(response_text)>>
            Parses(candidate) ==
                candidate # None /\ from_str(Unwrap(candidate)).ok
            Good == {i \in 1..3 : Parses(StrategyCandidates[i])}
        IN  IF Good # {}
            THEN LET i == CHOOSE g \in Good : \A h \in Good : g <= h
                 IN  /\ r.result = from_str(Unwrap(StrategyCandidates[i]))
                     /\ \A j \in Range(r.tried) : j <= i
            ELSE /\ ~r.result.ok
                 /\ Len(r.result.error.all_errors) = 3
                 /\ \A k \in 1..3 :
                       /\ r.result.error.all_errors[k].strategy = k
                       /\ r.result.error.all_errors[k].error = "No JSON candidate found"
                            <=> StrategyCandidates[k] = None

\* C25: the third candidate the parser tries is the text from the first
\* opening brace to the closing brace that balances it, and there is no third
\* candidate when the braces never balance.
C25_ThirdCandidateIsBraceScan ==
    \A r \in parse_result :
        json_candidates[3] = balanced_braces(response_text)

\* C26: extract_json_from_response returns the braced content of the first
\* fenced code block whenever the text has one; a text without code block
\* gives the first bare braced match, and a text without an opening brace
\* followed by a closing brace gives no candidate.
C26_FirstCodeBlockContent ==
    \A r \in parse_result :
        LET text == response_text
            Fences == {i \in 1..Len(text) : literal_at(text, i, Fence)}
            open == CHOOSE i \in Fences : \A j \in Fences : i <= j
            after == IF literal_at(text, open + 3, <<"j", "s", "o", "n">>)
                     THEN open + 7 ELSE open + 3
            Closes == {i \in Fences : i >= after}
            close == CHOOSE i \in Closes : \A j \in Closes : i <= j
            \* the content of the first fenced code block, its json tag
            \* skipped; None when no fence closes it
            block == IF Fences = {} \/ Closes = {} THEN None
                     ELSE Some(trim(SubSeq(text, after, close - 1)))
            BraceToBrace(content) ==
                content # <<>> /\ content[1] = "{" /\ Last(content) = "}"
        IN  /\ (block # None /\ BraceToBrace(Unwrap(block)))
                  => json_candidates[2] = block
            /\ (\A i \in 1..Len(text) : ~literal_at(text, i, Fence))
                  => json_candidates[2] =
                        IF find(text, 1) = None THEN None
                        ELSE Some(Unwrap(find(text, 1)).json)
            /\ (\A i, j \in 1..Len(text) : ~(i < j /\ text[i] = "{" /\ text[j] = "}"))
                  => json_candidates[2] = None

====
